---- MODULE Spec2Model ----
(***************************************************************************)
(* A model of the chunking-and-assembly pipeline of OpenAI_TTS_GUI:        *)
(*   - split_text             (src/src/openai_tts_gui/utils.py)            *)
(*   - _compute_backoff       (src/src/openai_tts_gui/tts.py)              *)
(*   - TTSProcessor.run and _save_chunk_with_retries (same file)           *)
(*   - concatenate_audio_files and cleanup_files (utils.py)                *)
(*   - rate_limited_request and process_speech of the older program      *)
(*     (src/OpenAI_TTS.py)                                                 *)
(* Characters are one-character strings, a text is a sequence of them.     *)
(* Durations and clock values are integers in milliseconds.                *)
(***************************************************************************)
EXTENDS Integers, Sequences, FiniteSets, TLC

VARIABLES
    \* ---- split_text(text, chunk_size) ----
    text,           \* the argument text
    chunk_size,     \* the argument chunk_size
    chunks,         \* the local list chunks (the return value once spc = "done")
    current_pos,    \* the local cursor (0-based, as in the code)
    forced,         \* ghost: indices (in chunks) of the chunks cut by the forced branch
    spc,            \* position in split_text: "start" | "loop" | "done"
    \* ---- _compute_backoff(e, attempt) ----
    bk_ra,          \* what e.response.headers.get("retry-after") finds (see RetryAfterInputs)
    bk_attempt,     \* the argument attempt
    bk_retry_delay, \* config.RETRY_DELAY at the call, in milliseconds
    bk_draw,        \* ghost: the draw of random.uniform, in 0..JitterSteps (-1: none)
    bk_out,         \* the return value and the branch that produced it (NoBackoff before the return)
    bpc,            \* position in _compute_backoff: "call" | "done"
    \* ---- TTSProcessor.run and _save_chunk_with_retries ----
    parallelism,    \* config.PARALLELISM
    total_chunks,   \* len(chunks), the number of chunks split_text returned to run
    retain_files,   \* params["retain_files"]
    rpc,            \* position of run: "start" | "seq_call" | "as_completed" |
                    \*   "shutdown" | "concat" | "finally" | "finished"
    cur,            \* the loop index i of the sequential loop
    job_text,       \* params["text"], a sequence of characters
    temp_files,     \* self.temp_files, each file named by its chunk index
    tasks,          \* per chunk index, the call of _save_chunk_with_retries for it
    collected,      \* the futures as_completed has yielded so far
    completed,      \* the local counter completed of the parallel branch
    progress,       \* the values emitted on progress_updated, in order
    n_error,        \* the number of tts_error emissions
    n_complete,     \* the number of tts_complete emissions
    chunk_file,     \* per chunk index, what its temp file holds on disk
    output,         \* what the file at output_path holds
    concat_calls,   \* ghost: the number of calls of concatenate_audio_files
    undeleted,      \* ghost: the temp files whose os.remove raised in cleanup_files
    manifest,       \* concat_list.txt on disk: "absent" | "present"
    manifest_stuck, \* ghost: os.remove(concat_list_path) raised
    tool_runs,      \* ghost: the manifests (lists of chunk indices) the external tool ran on
    concat_exc,     \* ghost: how concatenate_audio_files ended: "none" (not called) |
                    \*   "returned" | the exception it raised
    last_event,     \* ghost: the provider response handled by the step just taken and
                    \*   the wait computed for it (NoEvent after any other step)
    \* ---- the progress values of a job whose chunks all succeed ----
    pg_total,       \* total_chunks
    pg_done,        \* the number of chunks done (i, or completed)
    pg_emitted,     \* the last value given to progress_updated.emit (-1: none yet)
    pg_prev,        \* ghost: the value emitted before that one (-1: none)
    pg_pc,          \* "idle" | "start" | "chunks" | "done"
    \* ---- rate_limited_request of the older OpenAI_TTS.py, called by the workers
    \*      of process_speech ----
    rl_model,       \* the argument model, a string as a sequence of characters
    rl_now,         \* the clock time.time() reads, in milliseconds
    last_request_time,  \* the global of that name, in milliseconds
    rl_workers,     \* per worker thread: where it is in rate_limited_request, the
                    \*   time its sleep ends, and the calls it has completed
    rl_last_sent,   \* ghost: when the latest request went out (-1: none yet)
    rl_min_gap,     \* ghost: the smallest time between two successive requests (-1: none)
    \* ---- process_speech of the older OpenAI_TTS.py ----
    ps_len_chunks,  \* len(chunks); the chunks and their files are named 0..len(chunks)-1
    ps_retain_files,\* the argument retain_files
    ps_futures,     \* per chunk index, the future of its save_chunk call
    ps_yielded,     \* the futures as_completed has yielded so far
    ps_temp_files,  \* the local list temp_files
    ps_files,       \* the chunk files on disk
    ps_progress,    \* the last value written as '-UPDATE PROGRESS-' (NoProgress: none)
    ps_concat_args, \* ghost: the file_list of each call of concatenate_audio_files
    ps_popup,       \* the error popup shown: "none" | "failed" | "skipped"
    ps_pc           \* position in process_speech: "idle" | "start" | "as_completed" |
                    \*   "shutdown" | "done"

splitVars == <<text, chunk_size, chunks, current_pos, forced, spc>>

backoffVars == <<bk_ra, bk_attempt, bk_retry_delay, bk_draw, bk_out, bpc>>

runVars == <<job_text, parallelism, total_chunks, retain_files, rpc, cur, temp_files, tasks,
             collected, completed, progress, n_error, n_complete, chunk_file,
             output, concat_calls, undeleted, manifest, manifest_stuck, tool_runs,
             concat_exc, last_event>>

\* What only concatenate_audio_files touches.
concatVars == <<manifest, manifest_stuck, tool_runs, concat_exc>>

progressVars == <<pg_total, pg_done, pg_emitted, pg_prev, pg_pc>>

rateVars == <<rl_model, rl_now, last_request_time, rl_workers, rl_last_sent, rl_min_gap>>

processVars == <<ps_len_chunks, ps_retain_files, ps_futures, ps_yielded, ps_temp_files,
                 ps_files, ps_progress, ps_concat_args, ps_popup, ps_pc>>

vars == <<text, chunk_size, chunks, current_pos, forced, spc,
          bk_ra, bk_attempt, bk_retry_delay, bk_draw, bk_out, bpc,
          job_text, parallelism, total_chunks, retain_files, rpc, cur, temp_files, tasks,
          collected, completed, progress, n_error, n_complete, chunk_file,
          output, concat_calls, undeleted, manifest, manifest_stuck, tool_runs,
          concat_exc, last_event,
          pg_total, pg_done, pg_emitted, pg_prev, pg_pc,
          rl_model, rl_now, last_request_time, rl_workers, rl_last_sent, rl_min_gap,
          ps_len_chunks, ps_retain_files, ps_futures, ps_yielded, ps_temp_files,
          ps_files, ps_progress, ps_concat_args, ps_popup, ps_pc>>


-----------------------------------------------------------------------------
(* Bounds of the model *)

MaxTextLen == 6
MaxOldChunks == 3
MaxChunkSize == 3
MaxHeaderLen == 3
JitterSteps == 4
MaxChunks == 3
MaxParallelism == 2
MaxFairChunks == 2
MaxSegments == 200
MaxWorkers == 2
MaxCalls == 2
MaxIntervals == 3
JobChunkSize == 3

-----------------------------------------------------------------------------
(* Constants of config.py *)

MAX_RETRIES == 3
RETRY_DELAY == 5

-----------------------------------------------------------------------------
(* Characters *)

\* The characters the bounded inputs are drawn from: a letter, a sentence
\* mark, a space and a newline (whitespace that is not " ").
Alphabet == {"a", ".", " ", "\n"}

\* The character class [\.?!;:] of _BOUNDARY_RE.
IsTerminal(c) == c \in {".", "?", "!", ";", ":"}

\* The class \s of _BOUNDARY_RE (the vertical tab, which TLA+ strings cannot
\* spell, is left out).
IsSpace(c) == c \in {" ", "\t", "\n", "\r", "\f"}

Min(a, b) == IF a <= b THEN a ELSE b

Max(a, b) == IF a >= b THEN a ELSE b

\* Python's s[a:b] on a sequence, 0-based and end-exclusive, clamped to len(s).
Slice(s, a, b) == SubSeq(s, a + 1, Min(b, Len(s)))

-----------------------------------------------------------------------------
(* split_text *)

\* Whether '$' matches at 0-based position i of s: at the end of the string,
\* or just before a newline that ends the string.
AtDollar(s, i) == i = Len(s) \/ (i = Len(s) - 1 /\ s[Len(s)] = "\n")

\* Whether _BOUNDARY_RE matches the one character at 0-based position i of s.
BoundaryMatchAt(s, i) ==
    /\ IsTerminal(s[i + 1])
    /\ \/ (i + 1 < Len(s) /\ IsSpace(s[i + 2]))
       \/ AtDollar(s, i + 1)

\* The loop "for m in _BOUNDARY_RE.finditer(chunk): punct_match = m" followed by
\* "split_index = punct_match.end()": scans left to right from 0-based position
\* i, last holding the end of the last match so far (-1: no match).
RECURSIVE FinditerLastEnd(_, _, _)
FinditerLastEnd(chunk, i, last) ==
    IF i >= Len(chunk) THEN last
    ELSE IF BoundaryMatchAt(chunk, i)
         THEN FinditerLastEnd(chunk, i + 1, i + 1)
         ELSE FinditerLastEnd(chunk, i + 1, last)

\* chunk.rfind(" ", 0, hi): the highest 0-based index below hi holding a space,
\* or -1.
RECURSIVE Rfind(_, _)
Rfind(chunk, hi) ==
    IF hi = 0 THEN -1
    ELSE IF chunk[hi] = " " THEN hi - 1
    ELSE Rfind(chunk, hi - 1)

\* A variant of the scan that keeps the first match instead of the last.
RECURSIVE FinditerFirstEnd(_, _)
FinditerFirstEnd(chunk, i) ==
    IF i >= Len(chunk) THEN -1
    ELSE IF BoundaryMatchAt(chunk, i) THEN i + 1
    ELSE FinditerFirstEnd(chunk, i + 1)

SplitIndexPunctFirst(chunk) == FinditerFirstEnd(chunk, 0)

\* Lines 62-77: the split index chosen for a window that does not reach the end
\* of the text, and whether the forced branch chose it.
SplitIndexPunct(chunk) == FinditerLastEnd(chunk, 0, -1)

\* A variant of the space branch that cuts before the last space, not after it.
SplitIndexSpaceBefore(chunk) == Rfind(chunk, Len(chunk))

SplitIndexSpace(chunk) == Rfind(chunk, Len(chunk)) + 1

\* A variant whose forced branch cuts one character past the window.
SplitChoiceForcedPastWindow(chunk, size) ==
    IF SplitIndexPunct(chunk) # -1
    THEN [split_index |-> SplitIndexPunct(chunk), forced |-> FALSE]
    ELSE IF SplitIndexSpace(chunk) # 0
         THEN [split_index |-> SplitIndexSpace(chunk), forced |-> FALSE]
         ELSE [split_index |-> size + 1, forced |-> TRUE]

SplitChoice(chunk, size) ==
    IF SplitIndexPunct(chunk) # -1
    THEN [split_index |-> SplitIndexPunct(chunk), forced |-> FALSE]
    ELSE IF SplitIndexSpace(chunk) # 0
         THEN [split_index |-> SplitIndexSpace(chunk), forced |-> FALSE]
         ELSE [split_index |-> size, forced |-> TRUE]

\* A variant that skips the whitespace after the cut, as the older copies of
\* the function do (text = text[split_index:].lstrip()).
RECURSIVE SkipSpace(_, _)
SkipSpace(t, pos) ==
    IF pos < Len(t) /\ IsSpace(t[pos + 1]) THEN SkipSpace(t, pos + 1) ELSE pos

AdvanceCursorLstrip(t, pos, final_chunk) == SkipSpace(t, pos + Len(final_chunk))

\* Line 81: the cursor after final_chunk was appended.
AdvanceCursor(t, pos, final_chunk) == pos + Len(final_chunk)

\* One iteration of the while loop (lines 54-81) from cursor pos with the
\* chunks cs so far: the new chunks, the new cursor, whether the loop broke.
LoopBody(t, size, pos, cs) ==
    LET end_pos == Min(pos + size, Len(t))
        chunk == Slice(t, pos, end_pos)
    IN  IF end_pos = Len(t)
        THEN [chunks |-> Append(cs, chunk), current_pos |-> pos,
              brk |-> TRUE, forced |-> FALSE]
        ELSE LET c == SplitChoice(chunk, size)
                 final_chunk == Slice(t, pos, pos + c.split_index)
             IN  [chunks |-> Append(cs, final_chunk),
                  current_pos |-> AdvanceCursor(t, pos, final_chunk),
                  brk |-> FALSE, forced |-> c.forced]

Texts == UNION {[1..n -> Alphabet] : n \in 0..MaxTextLen}

SplitInit ==
    /\ text \in Texts
    /\ chunk_size \in 1..MaxChunkSize
    /\ chunks = <<>>
    /\ current_pos = 0
    /\ forced = {}
    /\ spc = "start"

\* The split_text component at rest (the other specifications leave it alone).
SplitIdle ==
    /\ text = <<>>
    /\ chunk_size = 1
    /\ chunks = <<>>
    /\ current_pos = 0
    /\ forced = {}
    /\ spc = "idle"

\* A variant without the "if not text" return.
SplitEnterNoEmptyCheck ==
    /\ spc = "start"
    /\ IF Len(text) <= chunk_size
       THEN chunks' = <<text>> /\ spc' = "done"
       ELSE chunks' = <<>> /\ spc' = "loop"
    /\ UNCHANGED <<text, chunk_size, current_pos, forced>>
    /\ UNCHANGED <<backoffVars, runVars, progressVars, rateVars, processVars>>

\* Lines 45-52: the two early returns, or the entry to the loop.
SplitEnter ==
    /\ spc = "start"
    /\ IF Len(text) = 0
       THEN chunks' = <<>> /\ spc' = "done"
       ELSE IF Len(text) <= chunk_size
            THEN chunks' = <<text>> /\ spc' = "done"
            ELSE chunks' = <<>> /\ spc' = "loop"
    /\ UNCHANGED <<text, chunk_size, current_pos, forced>>
    /\ UNCHANGED <<backoffVars, runVars, progressVars, rateVars, processVars>>

\* Lines 54-81: the loop test and one iteration.
SplitLoop ==
    /\ spc = "loop"
    /\ IF current_pos < Len(text)
       THEN LET r == LoopBody(text, chunk_size, current_pos, chunks)
            IN  /\ chunks' = r.chunks
                /\ current_pos' = r.current_pos
                /\ forced' = IF r.forced THEN forced \cup {Len(r.chunks)} ELSE forced
                /\ spc' = IF r.brk THEN "done" ELSE "loop"
       ELSE UNCHANGED <<chunks, current_pos, forced>> /\ spc' = "done"
    /\ UNCHANGED <<text, chunk_size>>
    /\ UNCHANGED <<backoffVars, runVars, progressVars, rateVars, processVars>>

SplitNext == SplitEnter \/ SplitLoop

\* split_text as run calls it: the loop of lines 54-81 from cursor pos on.
RECURSIVE SplitFrom(_, _, _, _)
SplitFrom(t, size, pos, cs) ==
    IF pos >= Len(t) THEN cs
    ELSE LET r == LoopBody(t, size, pos, cs)
         IN  IF r.brk THEN r.chunks ELSE SplitFrom(t, size, r.current_pos, r.chunks)

\* A variant without the "if not text" return.
SplitTextNoEmptyCheck(t, size) ==
    IF Len(t) <= size THEN <<t>>
    ELSE SplitFrom(t, size, 0, <<>>)

\* split_text(text, chunk_size), lines 33-85, as a function.
SplitText(t, size) ==
    IF Len(t) = 0 THEN <<>>
    ELSE IF Len(t) <= size THEN <<t>>
    ELSE SplitFrom(t, size, 0, <<>>)


-----------------------------------------------------------------------------
(* _compute_backoff *)

\* Seconds as milliseconds, the unit of every duration of the model.
Ms(seconds) == seconds * 1000

\* The characters retry-after header values are drawn from: digits, the
\* decimal point, a sign, and a letter (as in an HTTP-date).
HeaderAlphabet == {"0", "2", "5", ".", "-", "x"}

HeaderStrings == UNION {[1..n -> HeaderAlphabet] : n \in 0..MaxHeaderLen}

\* What "retry-after" lookup can find: an error without a response (or with a
\* response without headers), headers without the field, or the field's string.
NoResponse == [kind |-> "no_response", s |-> <<>>]

NoHeader == [kind |-> "no_header", s |-> <<>>]

HeaderValue(str) == [kind |-> "str", s |-> str]

RetryAfterInputs == {NoResponse, NoHeader} \cup {HeaderValue(str) : str \in HeaderStrings}

IsDigit(c) == c \in {"0", "1", "2", "3", "4", "5", "6", "7", "8", "9"}

DigitVal(c) ==
    CASE c = "0" -> 0 [] c = "1" -> 1 [] c = "2" -> 2 [] c = "3" -> 3
      [] c = "4" -> 4 [] c = "5" -> 5 [] c = "6" -> 6 [] c = "7" -> 7
      [] c = "8" -> 8 [] c = "9" -> 9

RECURSIVE Pow(_, _)
Pow(b, n) == IF n = 0 THEN 1 ELSE b * Pow(b, n - 1)

\* The number a string of decimal digits spells.
RECURSIVE DigitsValue(_)
DigitsValue(ds) ==
    IF ds = <<>> THEN 0
    ELSE DigitsValue(SubSeq(ds, 1, Len(ds) - 1)) * 10 + DigitVal(ds[Len(ds)])

\* float(s) for a string over HeaderAlphabet: an optional sign, then digits
\* with at most one decimal point and at least one digit; anything else is a
\* ValueError. The value is in milliseconds (exact for up to three decimals).
ParseFloat(s) ==
    LET neg == Len(s) > 0 /\ s[1] = "-"
        body == IF neg THEN Tail(s) ELSE s
        dots == {p \in 1..Len(body) : body[p] = "."}
        digs == {p \in 1..Len(body) : IsDigit(body[p])}
        wellFormed == /\ dots \cup digs = 1..Len(body)
                      /\ Cardinality(dots) <= 1
                      /\ digs # {}
        dot == IF dots = {} THEN Len(body) + 1 ELSE CHOOSE p \in dots : TRUE
        whole == SubSeq(body, 1, dot - 1)
        frac == SubSeq(body, dot + 1, Len(body))
        magnitude == Ms(DigitsValue(whole))
                     + (Ms(DigitsValue(frac)) \div Pow(10, Len(frac)))
    IN  IF wellFormed
        THEN [ok |-> TRUE, val |-> IF neg THEN 0 - magnitude ELSE magnitude]
        ELSE [ok |-> FALSE, val |-> 0]

\* Lines 355-365: the truthiness tests on resp, resp.headers and ra.
HasRetryAfterString(ra) == ra.kind = "str" /\ Len(ra.s) > 0

\* random.uniform(a, b) = a + (b - a) * random(), the draw d standing for
\* random() = d / JitterSteps.
Uniform(a, b, d) == a + (((b - a) * d) \div JitterSteps)

\* Line 366.
BackoffBase(retry_delay) == Max(Ms(1), retry_delay)

\* A variant with the linear backoff of the older copy of the function
\* (wait_time = config.RETRY_DELAY * (attempt + 1)).
ExponentialDelayLinear(retry_delay, attempt) == BackoffBase(retry_delay) * (attempt + 1)

\* Line 368.
ExponentialDelay(retry_delay, attempt) == BackoffBase(retry_delay) * Pow(2, attempt)

\* A variant that takes the larger of the header's delay and the exponential one.
ComputeBackoffAtLeastExponential(ra, attempt, retry_delay, d) ==
    LET delay == ExponentialDelay(retry_delay, attempt)
        jitter == Uniform(0, delay \div 5, d)
    IN  IF HasRetryAfterString(ra) /\ ParseFloat(ra.s).ok
        THEN [delay |-> Max(ParseFloat(ra.s).val, delay), path |-> "retry_after"]
        ELSE [delay |-> delay + jitter, path |-> "exponential"]

\* No return value yet.
NoBackoff == [delay |-> 0, path |-> "none"]

\* Lines 352-370: the delay returned and the branch that returned it, d being
\* the draw of random.uniform (read on the exponential branch only).
ComputeBackoff(ra, attempt, retry_delay, d) ==
    IF HasRetryAfterString(ra) /\ ParseFloat(ra.s).ok
    THEN [delay |-> ParseFloat(ra.s).val, path |-> "retry_after"]
    ELSE LET delay == ExponentialDelay(retry_delay, attempt)
             jitter == Uniform(0, delay \div 5, d)
         IN  [delay |-> delay + jitter, path |-> "exponential"]

\* The values of config.RETRY_DELAY the backoff is exercised with: below the
\* floor of one second, and the value config.py sets.
RetryDelays == {0, 500, Ms(RETRY_DELAY)}

BackoffInit ==
    /\ bk_ra \in RetryAfterInputs
    /\ bk_attempt \in 0..(MAX_RETRIES - 1)
    /\ bk_retry_delay \in RetryDelays
    /\ bk_draw = -1
    /\ bk_out = NoBackoff
    /\ bpc = "call"

\* The _compute_backoff component at rest.
BackoffIdle ==
    /\ bk_ra = NoResponse
    /\ bk_attempt = 0
    /\ bk_retry_delay = Ms(RETRY_DELAY)
    /\ bk_draw = -1
    /\ bk_out = NoBackoff
    /\ bpc = "idle"

\* One call of _compute_backoff.
CallComputeBackoff ==
    /\ bpc = "call"
    /\ \E d \in 0..JitterSteps :
          LET out == ComputeBackoff(bk_ra, bk_attempt, bk_retry_delay, d)
          IN  /\ bk_out' = out
              /\ bk_draw' = IF out.path = "exponential" THEN d ELSE -1
    /\ bpc' = "done"
    /\ UNCHANGED <<bk_ra, bk_attempt, bk_retry_delay>>
    /\ UNCHANGED <<splitVars, runVars, progressVars, rateVars, processVars>>

BackoffNext == CallComputeBackoff

-----------------------------------------------------------------------------
(* TTSProcessor.run and _save_chunk_with_retries *)

ChunkIds == 1..MaxChunks

\* What one synthesis request can end in: audio streamed to the file ("ok"),
\* a success with a zero-byte body ("ok_empty"), or an exception, named by the
\* except clause that handles it (lines 262-343): RateLimitError, APITimeoutError,
\* APIConnectionError, APIStatusError with a 5xx or with another status, the
\* clauses that only report (APIError, OpenAIError, Exception: "other_error"),
\* and OSError while the file is written.
Outcomes == {"ok", "ok_empty", "rate_limit", "timeout", "connection",
             "status_5xx", "status_4xx", "other_error", "os_error"}

\* The retry-after lookups of the errors met in run: errors with a response
\* come with or without the header, timeouts and connection errors have no
\* response.
RetryAfterOf(outcome) ==
    IF outcome \in {"rate_limit", "status_5xx"}
    THEN {NoHeader, HeaderValue(<<"2", ".", "5">>)}
    ELSE {NoResponse}

\* The draws of random.uniform explored in run: both ends of the jitter.
DrawsOf(outcome) ==
    IF outcome \in {"rate_limit", "timeout", "connection", "status_5xx"}
    THEN {0, JitterSteps} ELSE {0}

\* What a failed write may leave at the file's path.
LeftOversOf(outcome) ==
    IF outcome = "os_error" THEN {"unwritten", "partial"} ELSE {"unwritten"}

\* A call of _save_chunk_with_retries: where it is ("none": no such chunk,
\* "idle": not called, "queued": submitted to the executor, "request": about to
\* issue the request of the current attempt, "sleeping": in time.sleep of an
\* except clause, "returned"), the loop variable attempt, ghost counts of the
\* requests issued and the sleeps begun by the call in progress, and the return
\* value. A call that has returned keeps its return value only.
Task(pc, attempt, requests, sleeps, result) ==
    [pc |-> pc, attempt |-> attempt, requests |-> requests, sleeps |-> sleeps,
     result |-> result]

Returned(result) == Task("returned", 0, 0, 0, result)

\* The record of a handled response: the chunk, the response, the attempt
\* index, the wait computed (0: none), the requests issued and sleeps begun by
\* the call up to and including this step, and whether tts_error was emitted.
NoEvent == [task |-> 0, outcome |-> "none", attempt |-> 0, wait |-> 0,
            requests |-> 0, sleeps |-> 0, error |-> FALSE]

Range(f) == {f[x] : x \in DOMAIN f}

\* The pairs <<k, n>> with n <= 201 for which (k / n) * 95, computed in
\* double precision as Python does, falls just below the integer k * 95 / n.
FloatShort ==
    {<<7, 95>>, <<14, 95>>, <<28, 95>>, <<53, 95>>, <<56, 95>>, <<63, 95>>,
     <<14, 190>>, <<28, 190>>, <<56, 190>>, <<106, 190>>, <<112, 190>>, <<126, 190>>}

\* A variant that scales the chunk progress to 100.
ProgressValueTo100(k, n) == (k * 100) \div n

\* int((k / n) * 95), lines 121 and 144.
ProgressValue(k, n) ==
    IF <<k, n>> \in FloatShort THEN ((k * 95) \div n) - 1 ELSE (k * 95) \div n

\* cleanup_files(file_list): every listed file that exists is removed, unless
\* os.remove raises for it (stuck), which is logged and passed over.
CleanupFiles(files, list, stuck) ==
    [i \in ChunkIds |-> IF i \in Range(list) /\ i \notin stuck THEN "absent" ELSE files[i]]

\* The listed files that exist.
Existing(files, list) == {i \in Range(list) : files[i] # "absent"}

\* A variant of the finally clause that cleans up whatever the caller asked.
FinallyOutcomesAlwaysClean(files, list, retain) ==
    {[files |-> CleanupFiles(files, list, stuck), undeleted |-> stuck] :
        stuck \in SUBSET Existing(files, list)}

\* The finally clause of run (lines 185-189) applied to the files on disk:
\* the files afterwards and the ones whose removal failed.
FinallyOutcomes(files, list, retain) ==
    IF retain
    THEN {[files |-> files, undeleted |-> {}]}
    ELSE {[files |-> CleanupFiles(files, list, stuck), undeleted |-> stuck] :
             stuck \in SUBSET Existing(files, list)}

\* A variant whose finally clause removes nothing.
FinallySkipped(files) ==
    /\ chunk_file' = files
    /\ undeleted' = {}

Finally(files) ==
    \E f \in FinallyOutcomes(files, temp_files, retain_files) :
        /\ chunk_file' = f.files
        /\ undeleted' = f.undeleted

\* A variant that goes on whatever the call returned.
CallFailedNever(t) == FALSE

\* if not ok: return (line 118), if not success: return (line 140).
CallFailed(t) == t.result = "false"

\* A variant of the executor's exit that does not wait for the running calls.
ExecutorExitNoWait == TRUE

\* The exit of the with statement (line 101): shutdown(wait=True) returns
\* once every submitted call has returned.
ExecutorExit == \A i \in 1..total_chunks : tasks[i].pc = "returned"

\* The texts of the jobs: the empty text, three spaces, and texts of one,
\* two and three chunks at the chunk size JobChunkSize, which stands for
\* config.MAX_CHUNK_SIZE.
JobTexts ==
    {<<>>,
     <<" ", " ", " ">>,
     <<"a">>,
     <<"a", ".", " ", "a">>,
     <<"a", ".", " ", "a", ".", " ", "a">>}

\* A variant of the parallel branch that lists the files last chunk first.
SubmittedFilesReversed(n) == [k \in 1..n |-> n + 1 - k]

\* Lines 94-99: the parallel branch lists the temp file of every chunk, in
\* the order of the chunks, before it submits any.
SubmittedFiles(n) == [k \in 1..n |-> k]

RunInit ==
    /\ job_text \in JobTexts
    /\ parallelism \in 1..MaxParallelism
    /\ total_chunks = Len(SplitText(job_text, JobChunkSize))
    /\ retain_files \in BOOLEAN
    /\ rpc = "start"
    /\ cur = 0
    /\ temp_files = <<>>
    /\ tasks = [i \in ChunkIds |->
                  IF i <= total_chunks THEN Task("idle", 0, 0, 0, "none")
                  ELSE Task("none", 0, 0, 0, "none")]
    /\ collected = {}
    /\ completed = 0
    /\ progress = <<>>
    /\ n_error = 0
    /\ n_complete = 0
    /\ chunk_file = [i \in ChunkIds |-> "absent"]
    /\ output \in {"absent", "old"}
    /\ concat_calls = 0
    /\ undeleted = {}
    /\ manifest = "absent"
    /\ manifest_stuck = FALSE
    /\ tool_runs = <<>>
    /\ concat_exc = "none"
    /\ last_event = NoEvent

\* The run component at rest.
RunIdle ==
    /\ job_text = <<>>
    /\ parallelism = 1
    /\ total_chunks = 0
    /\ retain_files = FALSE
    /\ rpc = "idle"
    /\ cur = 0
    /\ temp_files = <<>>
    /\ tasks = [i \in ChunkIds |-> Task("none", 0, 0, 0, "none")]
    /\ collected = {}
    /\ completed = 0
    /\ progress = <<>>
    /\ n_error = 0
    /\ n_complete = 0
    /\ chunk_file = [i \in ChunkIds |-> "absent"]
    /\ output = "absent"
    /\ concat_calls = 0
    /\ undeleted = {}
    /\ manifest = "absent"
    /\ manifest_stuck = FALSE
    /\ tool_runs = <<>>
    /\ concat_exc = "none"
    /\ last_event = NoEvent

\* run leaves the try block through an except clause (lines 170-184): one
\* tts_error, then on to the finally clause.
RunFails ==
    /\ n_error' = n_error + 1
    /\ rpc' = "finally"
    /\ UNCHANGED <<chunk_file, undeleted>>

\* Lines 52-99 and 123-130: the client is built, the text split, the first
\* progress value emitted, the directory made; then the parallel branch
\* submits every chunk, the sequential one calls for chunk 1. The client
\* constructor and os.makedirs may raise.
RunStart ==
    /\ rpc = "start"
    /\ \E how \in {"ok", "client_error", "makedirs_error"} :
          IF how = "client_error" \/ total_chunks = 0
          THEN /\ RunFails
               /\ UNCHANGED <<temp_files, tasks, progress, cur>>
          ELSE IF how = "makedirs_error"
          THEN /\ progress' = <<1>>
               /\ RunFails
               /\ UNCHANGED <<temp_files, tasks, cur>>
          ELSE IF parallelism > 1
          THEN /\ progress' = <<1>>
               /\ temp_files' = SubmittedFiles(total_chunks)
               /\ tasks' = [i \in ChunkIds |->
                              IF i <= total_chunks
                              THEN [tasks[i] EXCEPT !.pc = "queued"] ELSE tasks[i]]
               /\ rpc' = "as_completed"
               /\ UNCHANGED <<cur, n_error, chunk_file, undeleted>>
          ELSE /\ progress' = <<1>>
               /\ cur' = 1
               /\ temp_files' = <<1>>
               /\ tasks' = [tasks EXCEPT ![1].pc = "request"]
               /\ rpc' = "seq_call"
               /\ UNCHANGED <<n_error, chunk_file, undeleted>>
    /\ UNCHANGED <<job_text, parallelism, total_chunks, retain_files, collected, completed,
                   n_complete, output, concat_calls, concatVars>>
    /\ last_event' = NoEvent
    /\ UNCHANGED <<splitVars, backoffVars, progressVars, rateVars, processVars>>

Running == {i \in ChunkIds : tasks[i].pc \in {"request", "sleeping"}}

Queued == {i \in ChunkIds : tasks[i].pc = "queued"}

\* A worker thread of the ThreadPoolExecutor (line 101) takes the next
\* submitted call from the queue, at most max_workers calls running at a time.
WorkerStart(i) ==
    /\ rpc \in {"as_completed", "shutdown"}
    /\ i \in Queued
    /\ \A j \in Queued : i <= j
    /\ Cardinality(Running) < parallelism
    /\ tasks' = [tasks EXCEPT ![i].pc = "request"]
    /\ UNCHANGED <<job_text, parallelism, total_chunks, retain_files, rpc, cur, temp_files,
                   collected, completed, progress, n_error, n_complete, chunk_file,
                   output, concat_calls, undeleted, concatVars>>
    /\ last_event' = NoEvent
    /\ UNCHANGED <<splitVars, backoffVars, progressVars, rateVars, processVars>>

\* A variant that gives up on a 5xx status at once, like on any other status.
AttemptEffectNo5xxRetry(t, outcome, wait, file) ==
    LET retry == [task |-> Task("sleeping", t.attempt, t.requests + 1, t.sleeps + 1, "none"),
                  error |-> FALSE, file |-> "unwritten", wait |-> wait, sleeps |-> t.sleeps + 1]
        fail == [task |-> Returned("false"),
                 error |-> TRUE, file |-> "unwritten", wait |-> 0, sleeps |-> t.sleeps]
        done(content) ==
                [task |-> Returned("true"),
                 error |-> FALSE, file |-> content, wait |-> 0, sleeps |-> t.sleeps]
    IN  CASE outcome = "ok" -> done("audio")
          [] outcome = "ok_empty" -> done("empty")
          [] outcome \in {"rate_limit", "timeout", "connection"} -> retry
          [] outcome = "os_error" -> [fail EXCEPT !.file = file]
          [] OTHER -> fail

\* A variant that retries after a failed write, as the older save_chunk does
\* after any exception.
AttemptEffectRetryOsError(t, outcome, wait, file) ==
    LET retry == [task |-> Task("sleeping", t.attempt, t.requests + 1, t.sleeps + 1, "none"),
                  error |-> FALSE, file |-> "unwritten", wait |-> wait, sleeps |-> t.sleeps + 1]
        fail == [task |-> Returned("false"),
                 error |-> TRUE, file |-> "unwritten", wait |-> 0, sleeps |-> t.sleeps]
        done(content) ==
                [task |-> Returned("true"),
                 error |-> FALSE, file |-> content, wait |-> 0, sleeps |-> t.sleeps]
    IN  CASE outcome = "ok" -> done("audio")
          [] outcome = "ok_empty" -> done("empty")
          [] outcome \in {"rate_limit", "timeout", "connection"} -> retry
          [] outcome = "status_5xx" ->
                IF t.attempt < MAX_RETRIES - 1 THEN retry ELSE fail
          [] outcome = "os_error" -> [retry EXCEPT !.file = file]
          [] OTHER -> fail

\* What an attempt does with the response (lines 225-343): the next state of
\* the call, whether tts_error is emitted, what the write leaves in the temp
\* file (file is what a failed write leaves behind), the wait computed and the
\* sleeps begun so far.
AttemptEffect(t, outcome, wait, file) ==
    LET retry == [task |-> Task("sleeping", t.attempt, t.requests + 1, t.sleeps + 1, "none"),
                  error |-> FALSE, file |-> "unwritten", wait |-> wait, sleeps |-> t.sleeps + 1]
        fail == [task |-> Returned("false"),
                 error |-> TRUE, file |-> "unwritten", wait |-> 0, sleeps |-> t.sleeps]
        done(content) ==
                [task |-> Returned("true"),
                 error |-> FALSE, file |-> content, wait |-> 0, sleeps |-> t.sleeps]
    IN  CASE outcome = "ok" -> done("audio")
          [] outcome = "ok_empty" -> done("empty")
          [] outcome \in {"rate_limit", "timeout", "connection"} -> retry
          [] outcome = "status_5xx" ->
                IF t.attempt < MAX_RETRIES - 1 THEN retry ELSE fail
          [] outcome = "os_error" -> [fail EXCEPT !.file = file]
          [] OTHER -> fail

\* One iteration of the for loop of _save_chunk_with_retries for chunk i up to
\* its return or its time.sleep: the request, the provider's response, and the
\* except clause that handles it.
Attempt(i) ==
    /\ tasks[i].pc = "request"
    /\ \E outcome \in Outcomes :
       \E ra \in RetryAfterOf(outcome), d \in DrawsOf(outcome), file \in LeftOversOf(outcome) :
          LET wait == ComputeBackoff(ra, tasks[i].attempt, Ms(RETRY_DELAY), d).delay
              eff == AttemptEffect(tasks[i], outcome, wait, file)
          IN  /\ tasks' = [tasks EXCEPT ![i] = eff.task]
              /\ n_error' = IF eff.error THEN n_error + 1 ELSE n_error
              /\ chunk_file' = IF eff.file = "unwritten" THEN chunk_file
                               ELSE [chunk_file EXCEPT ![i] = eff.file]
              /\ last_event' = [task |-> i, outcome |-> outcome,
                                attempt |-> tasks[i].attempt, wait |-> eff.wait,
                                requests |-> tasks[i].requests + 1,
                                sleeps |-> eff.sleeps, error |-> eff.error]
    /\ UNCHANGED <<job_text, parallelism, total_chunks, retain_files, rpc, cur, temp_files,
                   collected, completed, progress, n_complete, output, concat_calls,
                   undeleted, concatVars>>
    /\ UNCHANGED <<splitVars, backoffVars, progressVars, rateVars, processVars>>

\* A variant whose loop runs one iteration more than MAX_RETRIES.
WakeEffectOneMore(t) ==
    IF t.attempt + 1 <= MAX_RETRIES
    THEN [task |-> Task("request", t.attempt + 1, t.requests, t.sleeps, "none"),
          error |-> FALSE]
    ELSE [task |-> Returned("false"), error |-> TRUE]

\* time.sleep returns and the for loop goes on (line 224): the next attempt,
\* or, the range exhausted, lines 344-349.
WakeEffect(t) ==
    IF t.attempt + 1 < MAX_RETRIES
    THEN [task |-> Task("request", t.attempt + 1, t.requests, t.sleeps, "none"),
          error |-> FALSE]
    ELSE [task |-> Returned("false"), error |-> TRUE]

Wake(i) ==
    /\ tasks[i].pc = "sleeping"
    /\ tasks' = [tasks EXCEPT ![i] = WakeEffect(tasks[i]).task]
    /\ n_error' = IF WakeEffect(tasks[i]).error THEN n_error + 1 ELSE n_error
    /\ UNCHANGED <<job_text, parallelism, total_chunks, retain_files, rpc, cur, temp_files,
                   collected, completed, progress, n_complete, chunk_file, output,
                   concat_calls, undeleted, concatVars>>
    /\ last_event' = NoEvent
    /\ UNCHANGED <<splitVars, backoffVars, progressVars, rateVars, processVars>>

\* Lines 140-144 and 123-130: the sequential loop after the call for chunk cur
\* returned: return on failure, else the progress value and the next call.
SeqReturn ==
    /\ rpc = "seq_call"
    /\ tasks[cur].pc = "returned"
    /\ IF CallFailed(tasks[cur])
       THEN /\ rpc' = "finally"
            /\ UNCHANGED <<cur, temp_files, tasks, progress>>
       ELSE /\ progress' = Append(progress, ProgressValue(cur, total_chunks))
            /\ IF cur < total_chunks
               THEN /\ cur' = cur + 1
                    /\ temp_files' = Append(temp_files, cur + 1)
                    /\ tasks' = [tasks EXCEPT ![cur + 1].pc = "request"]
                    /\ rpc' = "seq_call"
               ELSE /\ rpc' = "concat"
                    /\ UNCHANGED <<cur, temp_files, tasks>>
    /\ UNCHANGED <<job_text, parallelism, total_chunks, retain_files, collected, completed,
                   n_error, n_complete, chunk_file, undeleted, output, concat_calls,
                   concatVars>>
    /\ last_event' = NoEvent
    /\ UNCHANGED <<splitVars, backoffVars, progressVars, rateVars, processVars>>

\* Lines 116-121: as_completed yields a finished future; a failed one makes
\* run return, into the executor's shutdown(wait=True).
ParCollect(i) ==
    /\ rpc = "as_completed"
    /\ tasks[i].pc = "returned"
    /\ i \notin collected
    /\ collected' = collected \cup {i}
    /\ IF CallFailed(tasks[i])
       THEN /\ rpc' = "shutdown"
            /\ UNCHANGED <<completed, progress>>
       ELSE /\ completed' = completed + 1
            /\ progress' = Append(progress, ProgressValue(completed + 1, total_chunks))
            /\ rpc' = IF collected' = 1..total_chunks THEN "concat" ELSE "as_completed"
    /\ UNCHANGED <<job_text, parallelism, total_chunks, retain_files, cur, temp_files, tasks,
                   n_error, n_complete, chunk_file, output, concat_calls, undeleted,
                   concatVars>>
    /\ last_event' = NoEvent
    /\ UNCHANGED <<splitVars, backoffVars, progressVars, rateVars, processVars>>

\* The with statement's exit after the return of line 119: every submitted
\* call has returned, then the finally clause.
ParShutdown ==
    /\ rpc = "shutdown"
    /\ ExecutorExit
    /\ rpc' = "finally"
    /\ UNCHANGED <<job_text, parallelism, total_chunks, retain_files, cur, temp_files, tasks,
                   collected, completed, progress, n_error, n_complete, chunk_file,
                   undeleted, output, concat_calls, concatVars>>
    /\ last_event' = NoEvent
    /\ UNCHANGED <<splitVars, backoffVars, progressVars, rateVars, processVars>>

\* How a call of concatenate_audio_files leaves the disk and how it ends:
\* the temp files, the output file, the manifest it may have left because its
\* removal raised, the manifests the tool ran on, and "returned" or the
\* exception raised.
ConcatResult(files, out, unlink, runs, exc) ==
    [files |-> files, output |-> out,
     manifest |-> IF unlink = "fails" THEN "present" ELSE "absent",
     manifest_stuck |-> (unlink = "fails"),
     tool_runs |-> runs, exc |-> exc]

\* The lines of the manifest (utils.py 280-292): the listed files that exist,
\* in the order of the list; a missing file is logged and skipped.
ManifestLines(files, list) ==
    LET Exists(i) == files[i] # "absent"
    IN  SelectSeq(list, Exists)

\* A variant of the single-file branch that copies the source and keeps it.
SingleFileOutcomesCopy(files, src, out) ==
    IF files[src] = "absent"
    THEN {ConcatResult(files, out, "none", <<>>, "FileNotFoundError")}
    ELSE {ConcatResult(files, out, "none", <<>>, "OSError"),
          ConcatResult(files, files[src], "none", <<>>, "returned")}

\* The single-file branch (utils.py 246-267). A missing source raises
\* FileNotFoundError. Otherwise os.makedirs or os.remove(output_file) may raise
\* with nothing changed, os.rename may raise after the output was removed, or
\* the source is renamed onto the output path.
SingleFileOutcomes(files, src, out) ==
    IF files[src] = "absent"
    THEN {ConcatResult(files, out, "none", <<>>, "FileNotFoundError")}
    ELSE {ConcatResult(files, out, "none", <<>>, "OSError"),
          ConcatResult(files, "absent", "none", <<>>, "OSError"),
          ConcatResult([files EXCEPT ![src] = "absent"], files[src], "none", <<>>,
                       "returned")}

\* A variant of the finally clause of concatenate_audio_files that removes the
\* manifest only after a success, as the older concatenate_audio_files does.
UnlinksAfterOnSuccessOnly(exc) ==
    IF exc = "returned" THEN {"ok", "fails"} ELSE {"kept"}

\* The finally clause of concatenate_audio_files (utils.py 354-361): the
\* manifest is removed ("ok") unless os.remove raises ("fails"), which is
\* logged.
UnlinksAfter(exc) == {"ok", "fails"}

\* What the manifest is once the call is over, for each way the finally
\* clause can go.
ManifestEnd(files, out, unlink, runs, exc) ==
    IF unlink = "kept"
    THEN [ConcatResult(files, out, "ok", runs, exc) EXCEPT !.manifest = "present"]
    ELSE ConcatResult(files, out, unlink, runs, exc)

\* The branch for several files (utils.py 270-361). Opening the manifest may
\* raise (none is created), writing it may raise; the tool may be missing
\* (subprocess.run raises FileNotFoundError), exit non-zero (CalledProcessError,
\* having written to the output path or not: it is run with -y on output_file
\* itself) or succeed, which needs a manifest with at least one line.
MultiFileOutcomes(files, list, out) ==
    LET lines == ManifestLines(files, list)
    IN  {ConcatResult(files, out, "none", <<>>, "OSError")}
        \cup
        {ManifestEnd(files, out, unlink, <<>>, "OSError") :
            unlink \in UnlinksAfter("OSError")}
        \cup
        {ManifestEnd(files, out, unlink, <<>>, "FileNotFoundError") :
            unlink \in UnlinksAfter("FileNotFoundError")}
        \cup
        {ManifestEnd(files, o, unlink, <<lines>>, "CalledProcessError") :
            unlink \in UnlinksAfter("CalledProcessError"), o \in {out, "partial"}}
        \cup
        {ManifestEnd(files, "joined", unlink, <<lines>>, "returned") :
            unlink \in {x \in UnlinksAfter("returned") : lines # <<>>}}

\* concatenate_audio_files(file_list, output_file), utils.py 226-361.
ConcatOutcomes(files, list, out) ==
    IF Len(list) = 0 THEN {ConcatResult(files, out, "none", <<>>, "returned")}
    ELSE IF Len(list) = 1 THEN SingleFileOutcomes(files, list[1], out)
    ELSE MultiFileOutcomes(files, list, out)

\* Lines 146-184: concatenate_audio_files is called on self.temp_files; when
\* it returns, progress 100 and tts_complete are emitted, when it raises,
\* tts_error. The signal is out, for the receiving thread to act on, before
\* the finally clause runs (RunFinally).
Concatenate ==
    /\ rpc = "concat"
    /\ concat_calls' = concat_calls + 1
    /\ \E r \in ConcatOutcomes(chunk_file, temp_files, output) :
          LET ok == r.exc = "returned"
          IN  /\ output' = r.output
              /\ manifest' = r.manifest
              /\ manifest_stuck' = r.manifest_stuck
              /\ tool_runs' = r.tool_runs
              /\ concat_exc' = r.exc
              /\ progress' = IF ok THEN Append(progress, 100) ELSE progress
              /\ n_complete' = IF ok THEN n_complete + 1 ELSE n_complete
              /\ n_error' = IF ok THEN n_error ELSE n_error + 1
              /\ chunk_file' = r.files
    /\ rpc' = "finally"
    /\ UNCHANGED <<job_text, parallelism, total_chunks, retain_files, cur, temp_files, tasks,
                   collected, completed, undeleted>>
    /\ last_event' = NoEvent
    /\ UNCHANGED <<splitVars, backoffVars, progressVars, rateVars, processVars>>

\* The finally clause of run (lines 185-189), after which run returns.
RunFinally ==
    /\ rpc = "finally"
    /\ Finally(chunk_file)
    /\ rpc' = "finished"
    /\ UNCHANGED <<job_text, parallelism, total_chunks, retain_files, cur, temp_files, tasks,
                   collected, completed, progress, n_error, n_complete, output,
                   concat_calls, concatVars>>
    /\ last_event' = NoEvent
    /\ UNCHANGED <<splitVars, backoffVars, progressVars, rateVars, processVars>>

\* A call of concatenate_audio_files on its own: a list of up to MaxChunks
\* files, each of which exists or not, and an output path with or without a
\* file.
ConcatInit ==
    /\ rpc = "concat_call"
    /\ temp_files \in {[k \in 1..n |-> k] : n \in 0..MaxChunks}
    /\ chunk_file \in {f \in [ChunkIds -> {"absent", "audio", "empty"}] :
                          \A i \in ChunkIds : i > Len(temp_files) => f[i] = "absent"}
    /\ output \in {"absent", "old"}
    /\ job_text = <<>>
    /\ parallelism = 1
    /\ total_chunks = 0
    /\ retain_files = FALSE
    /\ cur = 0
    /\ tasks = [i \in ChunkIds |-> Task("none", 0, 0, 0, "none")]
    /\ collected = {}
    /\ completed = 0
    /\ progress = <<>>
    /\ n_error = 0
    /\ n_complete = 0
    /\ concat_calls = 0
    /\ undeleted = {}
    /\ manifest = "absent"
    /\ manifest_stuck = FALSE
    /\ tool_runs = <<>>
    /\ concat_exc = "none"
    /\ last_event = NoEvent

CallConcatenate ==
    /\ rpc = "concat_call"
    /\ concat_calls' = concat_calls + 1
    /\ \E r \in ConcatOutcomes(chunk_file, temp_files, output) :
          /\ chunk_file' = r.files
          /\ output' = r.output
          /\ manifest' = r.manifest
          /\ manifest_stuck' = r.manifest_stuck
          /\ tool_runs' = r.tool_runs
          /\ concat_exc' = r.exc
    /\ rpc' = "concat_done"
    /\ UNCHANGED <<job_text, parallelism, total_chunks, retain_files, cur, temp_files, tasks,
                   collected, completed, progress, n_error, n_complete, undeleted,
                   last_event>>
    /\ UNCHANGED <<splitVars, backoffVars, progressVars, rateVars, processVars>>

ConcatNext == CallConcatenate

RunNext ==
    \/ RunStart
    \/ \E i \in ChunkIds : WorkerStart(i)
    \/ \E i \in ChunkIds : Attempt(i)
    \/ \E i \in ChunkIds : Wake(i)
    \/ SeqReturn
    \/ \E i \in ChunkIds : ParCollect(i)
    \/ ParShutdown
    \/ Concatenate
    \/ RunFinally

-----------------------------------------------------------------------------
(* The progress values of TTSProcessor.run on a job of many chunks *)

\* A job of pg_total chunks, each of which will succeed.
ProgressInit ==
    /\ pg_total \in 1..MaxSegments
    /\ pg_done = 0
    /\ pg_emitted = -1
    /\ pg_prev = -1
    /\ pg_pc = "start"

\* The progress component at rest.
ProgressIdle ==
    /\ pg_total = 0
    /\ pg_done = 0
    /\ pg_emitted = -1
    /\ pg_prev = -1
    /\ pg_pc = "idle"

\* progress_updated.emit(v)
Emit(v) ==
    /\ pg_emitted' = v
    /\ pg_prev' = pg_emitted

\* Line 82: progress_updated.emit(1).
ProgressStart ==
    /\ pg_pc = "start"
    /\ Emit(1)
    /\ pg_pc' = "chunks"
    /\ UNCHANGED <<pg_total, pg_done>>
    /\ UNCHANGED <<splitVars, backoffVars, runVars, rateVars, processVars>>

\* Lines 120-121 and 144: one more chunk is done and its value emitted.
ProgressChunk ==
    /\ pg_pc = "chunks"
    /\ pg_done < pg_total
    /\ pg_done' = pg_done + 1
    /\ Emit(ProgressValue(pg_done + 1, pg_total))
    /\ UNCHANGED <<pg_total, pg_pc>>
    /\ UNCHANGED <<splitVars, backoffVars, runVars, rateVars, processVars>>

\* Line 149, after concatenate_audio_files returned: progress_updated.emit(100).
ProgressFinish ==
    /\ pg_pc = "chunks"
    /\ pg_done = pg_total
    /\ Emit(100)
    /\ pg_pc' = "done"
    /\ UNCHANGED <<pg_total, pg_done>>
    /\ UNCHANGED <<splitVars, backoffVars, runVars, rateVars, processVars>>

ProgressNext == ProgressStart \/ ProgressChunk \/ ProgressFinish

-----------------------------------------------------------------------------
(* rate_limited_request and the workers of process_speech (OpenAI_TTS.py) *)

Workers == 1..MaxWorkers

\* The model names of the two tiers.
ModelNames == {<<"t", "t", "s", "-", "1">>, <<"t", "t", "s", "-", "1", "-", "h", "d">>}

\* 'hd' in model
ContainsHd(m) == \E k \in 1..(Len(m) - 1) : m[k] = "h" /\ m[k + 1] = "d"

\* min_interval of lines 139-141, in milliseconds: 60 / 50 s, or 60 / 3 s
\* for a model whose name contains 'hd'.
MinInterval(m) == IF ContainsHd(m) THEN 60000 \div 3 ELSE 60000 \div 50

\* The clock when the process makes its first request: later than any
\* interval after the initial last_request_time = 0.
Epoch == 60000

\* A worker: "idle" (between calls of rate_limited_request), "sleeping" (in
\* time.sleep of line 145 until wake_at), "ready" (about to post), "posted"
\* (in requests.post, the request sent), "done" (no more calls).
Worker(pc, wake_at, calls) == [pc |-> pc, wake_at |-> wake_at, calls |-> calls]

RateInit ==
    /\ rl_model \in ModelNames
    /\ rl_now = Epoch
    /\ last_request_time = 0
    /\ rl_workers = [w \in Workers |-> Worker("idle", 0, 0)]
    /\ rl_last_sent = -1
    /\ rl_min_gap = -1

\* The rate limiter at rest.
RateIdle ==
    /\ rl_model = <<>>
    /\ rl_now = 0
    /\ last_request_time = 0
    /\ rl_workers = [w \in Workers |-> Worker("done", 0, 0)]
    /\ rl_last_sent = -1
    /\ rl_min_gap = -1

\* Time passes: half an interval or a whole one.
RateTick ==
    /\ \E dt \in {MinInterval(rl_model) \div 2, MinInterval(rl_model)} :
          /\ rl_now + dt <= Epoch + MaxIntervals * MinInterval(rl_model)
          /\ rl_now' = rl_now + dt
    /\ UNCHANGED <<rl_model, last_request_time, rl_workers, rl_last_sent, rl_min_gap>>
    /\ UNCHANGED <<splitVars, backoffVars, runVars, progressVars, processVars>>

\* Lines 143-145: elapsed is computed from the clock and the global; the
\* worker goes to sleep for the rest of the interval, or straight on.
RateCheck(w) ==
    /\ rl_workers[w].pc = "idle"
    /\ LET elapsed == rl_now - last_request_time
           min_interval == MinInterval(rl_model)
       IN  rl_workers' =
             [rl_workers EXCEPT ![w] =
                IF elapsed < min_interval
                THEN Worker("sleeping", rl_now + (min_interval - elapsed), @.calls)
                ELSE Worker("ready", 0, @.calls)]
    /\ UNCHANGED <<rl_model, rl_now, last_request_time, rl_last_sent, rl_min_gap>>
    /\ UNCHANGED <<splitVars, backoffVars, runVars, progressVars, processVars>>

\* time.sleep returns, not before the time asked for.
RateWake(w) ==
    /\ rl_workers[w].pc = "sleeping"
    /\ rl_now >= rl_workers[w].wake_at
    /\ rl_workers' = [rl_workers EXCEPT ![w] = Worker("ready", 0, @.calls)]
    /\ UNCHANGED <<rl_model, rl_now, last_request_time, rl_last_sent, rl_min_gap>>
    /\ UNCHANGED <<splitVars, backoffVars, runVars, progressVars, processVars>>

\* Lines 147-154: requests.post sends the request.
RatePost(w) ==
    /\ rl_workers[w].pc = "ready"
    /\ rl_workers' = [rl_workers EXCEPT ![w] = Worker("posted", 0, @.calls)]
    /\ rl_last_sent' = rl_now
    /\ rl_min_gap' = IF rl_last_sent = -1 THEN rl_min_gap
                     ELSE IF rl_min_gap = -1 THEN rl_now - rl_last_sent
                     ELSE Min(rl_min_gap, rl_now - rl_last_sent)
    /\ UNCHANGED <<rl_model, rl_now, last_request_time>>
    /\ UNCHANGED <<splitVars, backoffVars, runVars, progressVars, processVars>>

\* Lines 154-157: the response arrives, the global is set to the clock and
\* the call returns; the worker calls again (a retry of save_chunk or its
\* next chunk) or is done.
RateStamp(w) ==
    /\ rl_workers[w].pc = "posted"
    /\ last_request_time' = rl_now
    /\ rl_workers' = [rl_workers EXCEPT ![w] =
                        IF @.calls + 1 < MaxCalls
                        THEN Worker("idle", 0, @.calls + 1)
                        ELSE Worker("done", 0, @.calls + 1)]
    /\ UNCHANGED <<rl_model, rl_now, rl_last_sent, rl_min_gap>>
    /\ UNCHANGED <<splitVars, backoffVars, runVars, progressVars, processVars>>

RateNext ==
    \/ RateTick
    \/ \E w \in Workers : RateCheck(w)
    \/ \E w \in Workers : RateWake(w)
    \/ \E w \in Workers : RatePost(w)
    \/ \E w \in Workers : RateStamp(w)

-----------------------------------------------------------------------------
(* process_speech (OpenAI_TTS.py): the thread pool of save_chunk calls *)

\* max_workers of the ThreadPoolExecutor (line 303).
PoolWorkers == 5

\* enumerate(chunks): the indices of the chunks, from 0.
OldChunkIds == 0..(MaxOldChunks - 1)

Indices(n) == 0..(n - 1)

\* A future: "none" (no such chunk) | "pending" | "running" | "finished" |
\* "cancelled", and the success flag save_chunk returned.
Future(state, success) == [state |-> state, success |-> success]

\* The value len(temp_files) / len(chunks) * 100, kept as a fraction.
ProgressOf(num, den) == [num |-> num, den |-> den]

NoProgress == ProgressOf(-1, 1)

ProcessInit ==
    /\ ps_len_chunks \in 0..MaxOldChunks
    /\ ps_retain_files \in BOOLEAN
    /\ ps_futures = [i \in OldChunkIds |-> Future("none", "none")]
    /\ ps_yielded = {}
    /\ ps_temp_files = <<>>
    /\ ps_files = {}
    /\ ps_progress = NoProgress
    /\ ps_concat_args = <<>>
    /\ ps_popup = "none"
    /\ ps_pc = "start"

\* process_speech at rest.
ProcessIdle ==
    /\ ps_len_chunks = 0
    /\ ps_retain_files = FALSE
    /\ ps_futures = [i \in OldChunkIds |-> Future("none", "none")]
    /\ ps_yielded = {}
    /\ ps_temp_files = <<>>
    /\ ps_files = {}
    /\ ps_progress = NoProgress
    /\ ps_concat_args = <<>>
    /\ ps_popup = "none"
    /\ ps_pc = "idle"

\* Lines 302-319: temp_files = [] and one future submitted per chunk.
ProcessSubmit ==
    /\ ps_pc = "start"
    /\ ps_futures' = [i \in OldChunkIds |->
                        IF i \in Indices(ps_len_chunks)
                        THEN Future("pending", "none") ELSE ps_futures[i]]
    /\ ps_pc' = "as_completed"
    /\ UNCHANGED <<ps_len_chunks, ps_retain_files, ps_yielded, ps_temp_files, ps_files,
                   ps_progress, ps_concat_args, ps_popup>>
    /\ UNCHANGED <<splitVars, backoffVars, runVars, progressVars, rateVars>>

PsPending == {i \in OldChunkIds : ps_futures[i].state = "pending"}

PsRunning == {i \in OldChunkIds : ps_futures[i].state = "running"}

\* A worker thread of the pool takes the next pending call from the queue.
ProcessWorkerStart(i) ==
    /\ ps_pc \in {"as_completed", "shutdown"}
    /\ i \in PsPending
    /\ \A j \in PsPending : i <= j
    /\ Cardinality(PsRunning) < PoolWorkers
    /\ ps_futures' = [ps_futures EXCEPT ![i].state = "running"]
    /\ UNCHANGED <<ps_len_chunks, ps_retain_files, ps_yielded, ps_temp_files, ps_files,
                   ps_progress, ps_concat_args, ps_popup, ps_pc>>
    /\ UNCHANGED <<splitVars, backoffVars, runVars, progressVars, rateVars>>

\* save_chunk (lines 159-224) returns (True, filename) with the file written,
\* or (False, filename).
ProcessWorkerReturn(i) ==
    /\ i \in PsRunning
    /\ \E ok \in BOOLEAN :
          /\ ps_futures' = [ps_futures EXCEPT
                              ![i] = Future("finished", IF ok THEN "true" ELSE "false")]
          /\ ps_files' = IF ok THEN ps_files \cup {i} ELSE ps_files
    /\ UNCHANGED <<ps_len_chunks, ps_retain_files, ps_yielded, ps_temp_files,
                   ps_progress, ps_concat_args, ps_popup, ps_pc>>
    /\ UNCHANGED <<splitVars, backoffVars, runVars, progressVars, rateVars>>

\* concurrent.futures.as_completed (line 321) yields a future that has
\* finished and was not yielded before, whatever its index.
Yieldable(i) ==
    /\ ps_futures[i].state = "finished"
    /\ i \notin ps_yielded

\* Lines 321-340: one iteration of the loop over as_completed. A success
\* appends the file name and writes the progress; a failure cancels the
\* futures (only a pending one can be cancelled), shows the popup and returns
\* from inside the with block.
ProcessCollect(i) ==
    /\ ps_pc = "as_completed"
    /\ Yieldable(i)
    /\ ps_yielded' = ps_yielded \cup {i}
    /\ IF ps_futures[i].success = "true"
       THEN /\ ps_temp_files' = Append(ps_temp_files, i)
            /\ ps_progress' = ProgressOf((Len(ps_temp_files) + 1) * 100, ps_len_chunks)
            /\ UNCHANGED <<ps_futures, ps_popup, ps_pc>>
       ELSE /\ ps_futures' = [j \in OldChunkIds |->
                                IF ps_futures[j].state = "pending"
                                THEN Future("cancelled", "none") ELSE ps_futures[j]]
            /\ ps_popup' = "failed"
            /\ ps_pc' = "shutdown"
            /\ UNCHANGED <<ps_temp_files, ps_progress>>
    /\ UNCHANGED <<ps_len_chunks, ps_retain_files, ps_files, ps_concat_args>>
    /\ UNCHANGED <<splitVars, backoffVars, runVars, progressVars, rateVars>>

\* The return at line 332 leaves the with block: shutdown(wait=True) returns
\* once the running calls have returned.
ProcessShutdown ==
    /\ ps_pc = "shutdown"
    /\ PsRunning = {}
    /\ ps_pc' = "done"
    /\ UNCHANGED <<ps_len_chunks, ps_retain_files, ps_futures, ps_yielded, ps_temp_files,
                   ps_files, ps_progress, ps_concat_args, ps_popup>>
    /\ UNCHANGED <<splitVars, backoffVars, runVars, progressVars, rateVars>>

\* Lines 342-359: every future was yielded; concatenate_audio_files is called
\* with temp_files if it has one name per chunk, the progress 100 written and
\* the files removed unless retained (an os.remove that raises is logged).
ProcessFinish ==
    /\ ps_pc = "as_completed"
    /\ ps_yielded = Indices(ps_len_chunks)
    /\ IF Len(ps_temp_files) = ps_len_chunks
       THEN /\ ps_concat_args' = Append(ps_concat_args, ps_temp_files)
            /\ ps_progress' = ProgressOf(100, 1)
            /\ IF ps_retain_files
               THEN ps_files' = ps_files
               ELSE \E stuck \in SUBSET (ps_files \cap Range(ps_temp_files)) :
                       ps_files' = (ps_files \ Range(ps_temp_files)) \cup stuck
            /\ UNCHANGED ps_popup
       ELSE /\ ps_popup' = "skipped"
            /\ UNCHANGED <<ps_concat_args, ps_progress, ps_files>>
    /\ ps_pc' = "done"
    /\ UNCHANGED <<ps_len_chunks, ps_retain_files, ps_futures, ps_yielded, ps_temp_files>>
    /\ UNCHANGED <<splitVars, backoffVars, runVars, progressVars, rateVars>>

ProcessNext ==
    \/ ProcessSubmit
    \/ \E i \in OldChunkIds : ProcessWorkerStart(i)
    \/ \E i \in OldChunkIds : ProcessWorkerReturn(i)
    \/ \E i \in OldChunkIds : ProcessCollect(i)
    \/ ProcessShutdown
    \/ ProcessFinish

-----------------------------------------------------------------------------
(* Specifications: one per component, the other components at rest *)

InitSplit == SplitInit /\ BackoffIdle /\ RunIdle /\ ProgressIdle /\ RateIdle /\ ProcessIdle

SpecSplit == InitSplit /\ [][SplitNext]_vars

\* split_text under the assumption that a started call keeps running.
FairSpecSplit == InitSplit /\ [][SplitNext]_vars /\ WF_vars(SplitEnter) /\ WF_vars(SplitLoop)

InitBackoff == BackoffInit /\ SplitIdle /\ RunIdle /\ ProgressIdle /\ RateIdle /\ ProcessIdle

SpecBackoff == InitBackoff /\ [][BackoffNext]_vars

Init == RunInit /\ SplitIdle /\ BackoffIdle /\ ProgressIdle /\ RateIdle /\ ProcessIdle

Next == RunNext

Spec == Init /\ [][Next]_vars

InitConcat == ConcatInit /\ SplitIdle /\ BackoffIdle /\ ProgressIdle /\ RateIdle /\ ProcessIdle

SpecConcat == InitConcat /\ [][ConcatNext]_vars

InitRate == RateInit /\ SplitIdle /\ BackoffIdle /\ RunIdle /\ ProgressIdle /\ ProcessIdle

SpecRate == InitRate /\ [][RateNext]_vars

InitProgress == ProgressInit /\ SplitIdle /\ BackoffIdle /\ RunIdle /\ RateIdle /\ ProcessIdle

SpecProgress == InitProgress /\ [][ProgressNext]_vars

InitProcess ==
    ProcessInit /\ SplitIdle /\ BackoffIdle /\ RunIdle /\ ProgressIdle /\ RateIdle

SpecProcess == InitProcess /\ [][ProcessNext]_vars

\* The same, with the scheduling the program relies on: every thread gets to
\* run, time.sleep returns, and every request and the external tool return
\* (the client is built with a timeout, line 62).
Fairness ==
    /\ WF_vars(RunStart)
    /\ WF_vars(SeqReturn)
    /\ WF_vars(ParShutdown)
    /\ WF_vars(Concatenate)
    /\ WF_vars(RunFinally)
    /\ \A i \in ChunkIds :
          /\ WF_vars(WorkerStart(i))
          /\ WF_vars(Attempt(i))
          /\ WF_vars(Wake(i))
          /\ WF_vars(ParCollect(i))

\* Liveness is checked on the jobs of at most MaxFairChunks chunks.
InitFair == Init /\ total_chunks <= MaxFairChunks

FairSpec == InitFair /\ [][Next]_vars /\ Fairness

-----------------------------------------------------------------------------
(* Properties of split_text *)

RECURSIVE Concat(_)
Concat(ss) == IF ss = <<>> THEN <<>> ELSE Head(ss) \o Concat(Tail(ss))

RECURSIVE TotalLen(_)
TotalLen(ss) == IF ss = <<>> THEN 0 ELSE Len(Head(ss)) + TotalLen(Tail(ss))

SetMax(S) == CHOOSE x \in S : \A y \in S : y <= x

\* The 1-based indices of the chunks cut by lines 62-81, i.e. the non-final ones.
NonFinal == IF spc = "done" THEN 1..(Len(chunks) - 1) ELSE 1..Len(chunks)

\* The window chunk i was cut from: the chunk_size characters of text that
\* follow the chunks before it.
Window(i) ==
    LET start == TotalLen(SubSeq(chunks, 1, i - 1))
    IN  SubSeq(text, start + 1, start + chunk_size)

\* The positions of a window after which a sentence boundary lies, and the
\* positions of its spaces.
BoundaryEnds(w) ==
    {p \in 1..Len(w) : IsTerminal(w[p]) /\ (p = Len(w) \/ IsSpace(w[p + 1]))}

SpaceEnds(w) == {p \in 1..Len(w) : w[p] = " "}

C2_SegmentBound ==
    spc = "done" => \A i \in 1..(Len(chunks) - 1) : Len(chunks[i]) <= chunk_size

\* C2 witness: a finished split of three or more chunks with a forced chunk of
\* exactly chunk_size characters and a shorter non-final chunk.
C2_Witness ==
    /\ spc = "done"
    /\ Len(chunks) >= 3
    /\ \E i, j \in 1..(Len(chunks) - 1) :
          Len(chunks[i]) = chunk_size /\ i \in forced /\ Len(chunks[j]) < chunk_size

\* C3: every non-final chunk is cut from a full window of chunk_size characters
\* right after the window's last sentence mark that is followed by whitespace or
\* ends the window; without such a mark, right after the window's last space;
\* with neither, after chunk_size characters, and exactly these are the forced
\* chunks.
C3_BoundaryPreference ==
    \A i \in NonFinal :
        LET w == Window(i)
        IN  /\ Len(w) = chunk_size
            /\ chunks[i] = SubSeq(w, 1, Len(chunks[i]))
            /\ Len(chunks[i]) =
                  IF BoundaryEnds(w) # {} THEN SetMax(BoundaryEnds(w))
                  ELSE IF SpaceEnds(w) # {} THEN SetMax(SpaceEnds(w))
                  ELSE chunk_size
            /\ i \in forced <=> (BoundaryEnds(w) = {} /\ SpaceEnds(w) = {})

\* C3 witness: a finished split that used all three rules: a cut after a
\* sentence mark that is not the last interesting character of its window, a cut
\* after a space, and a forced cut.
C3_Witness ==
    /\ spc = "done"
    /\ \E i, j, k \in NonFinal :
          /\ BoundaryEnds(Window(i)) # {}
          /\ Cardinality(BoundaryEnds(Window(i)) \cup SpaceEnds(Window(i))) >= 2
          /\ BoundaryEnds(Window(j)) = {} /\ SpaceEnds(Window(j)) # {}
          /\ k \in forced

\* C4: split_text returns the empty list for the empty text and the one-element
\* list [text] for a non-empty text of at most chunk_size characters.
C4_EmptyAndSingle ==
    spc = "done" =>
        /\ Len(text) = 0 => chunks = <<>>
        /\ (0 < Len(text) /\ Len(text) <= chunk_size) => chunks = <<text>>

\* C4 witness: a returned single chunk holding a text of exactly chunk_size
\* characters with a sentence boundary inside it.
C4_Witness ==
    /\ spc = "done"
    /\ Len(text) = chunk_size
    /\ chunks = <<text>>
    /\ BoundaryEnds(text) \ {Len(text)} # {}

\* C4 witness for the other case is the returned empty list.
C4_WitnessEmpty == spc = "done" /\ text = <<>> /\ chunks = <<>>

\* C30: split_text returns, every chunk it has appended is non-empty, and
\* every iteration of its loop that does not break moves current_pos forward
\* by at least one character (by the length of the chunk it appended).
C30_SplitTerminates ==
    /\ <>(spc = "done")
    /\ [](\A k \in 1..Len(chunks) : Len(chunks[k]) >= 1)
    /\ [][(spc = "loop" /\ spc' = "loop") =>
            /\ current_pos' >= current_pos + 1
            /\ Len(chunks') = Len(chunks) + 1
            /\ current_pos' = current_pos + Len(chunks'[Len(chunks')])]_vars

\* C30 witness: a text of at least three characters has been split with
\* chunk_size 1, one chunk per character, by forced cuts.
C30_Witness ==
    /\ spc = "done"
    /\ chunk_size = 1
    /\ Len(text) >= 3
    /\ Len(chunks) = Len(text)
    /\ forced # {}

\* C30 witness: a cut after a space has left a chunk of one character.
C30_WitnessSpace ==
    /\ spc = "done"
    /\ chunk_size >= 2
    /\ \E k \in 1..Len(chunks) : chunks[k] = <<" ">> /\ k \notin forced /\ k < Len(chunks)

-----------------------------------------------------------------------------
(* Properties of _compute_backoff *)

\* The error carries a retry-after value: the header is there and spells a number.
CarriesRetryAfterValue == HasRetryAfterString(bk_ra) /\ ParseFloat(bk_ra.s).ok

\* C9: when the error carries a retry-after value, _compute_backoff returns
\* exactly that value, whatever the attempt index and config.RETRY_DELAY, by
\* the branch that applies neither the exponential formula nor the jitter.
C9_RetryAfterHonored ==
    (bpc = "done" /\ CarriesRetryAfterValue) =>
        /\ bk_out.delay = ParseFloat(bk_ra.s).val
        /\ bk_out.path = "retry_after"
        /\ bk_draw = -1

\* C9 witness: the header "2.5" at attempt index 2 gave 2.5 seconds, below
\* what the exponential formula gives there.
C9_Witness ==
    /\ bpc = "done"
    /\ bk_ra = HeaderValue(<<"2", ".", "5">>)
    /\ bk_attempt = 2
    /\ bk_out.delay = 2500
    /\ bk_out.delay < ExponentialDelay(bk_retry_delay, bk_attempt)

\* C10: when the error carries no retry-after value, the delay for attempt
\* index k lies between b*2^k and 1.2*b*2^k inclusive with b = max(1 s,
\* RETRY_DELAY); with zero jitter it is exactly b*2^k, which is 5 s for k = 0
\* and 20 s for k = 2 when RETRY_DELAY is 5.
C10_ExponentialBounds ==
    (bpc = "done" /\ ~CarriesRetryAfterValue) =>
        LET b == IF bk_retry_delay < 1000 THEN 1000 ELSE bk_retry_delay
            lo == b * Pow(2, bk_attempt)
        IN  /\ bk_out.path = "exponential"
            /\ lo <= bk_out.delay
            /\ 10 * bk_out.delay <= 12 * lo
            /\ bk_draw = 0 => bk_out.delay = lo
            /\ (bk_draw = 0 /\ bk_retry_delay = 5000 /\ bk_attempt = 0)
                  => bk_out.delay = 5000
            /\ (bk_draw = 0 /\ bk_retry_delay = 5000 /\ bk_attempt = 2)
                  => bk_out.delay = 20000

\* C10 witness: no header, RETRY_DELAY 5, attempt index 2, zero jitter: 20 s.
C10_Witness ==
    /\ bpc = "done"
    /\ bk_ra = NoHeader
    /\ bk_retry_delay = 5000
    /\ bk_attempt = 2
    /\ bk_draw = 0
    /\ bk_out.delay = 20000

\* C10 witness of the upper end: the largest jitter on the floored base.
C10_WitnessMaxJitter ==
    /\ bpc = "done"
    /\ bk_retry_delay = 0
    /\ bk_attempt = 1
    /\ bk_draw = JitterSteps
    /\ bk_out.delay = 2400

-----------------------------------------------------------------------------
(* Properties of _save_chunk_with_retries *)

\* The errors the handler retries.
RetryableOutcomes == {"rate_limit", "timeout", "connection", "status_5xx"}

\* The step just taken handled the response to a request for chunk i.
Handled(i) == tasks[i].pc = "request" /\ last_event'.task = i

\* The call for chunk i took a step.
Stepped(i) == tasks'[i] # tasks[i]

\* A call that has returned issues no further request and does not sleep.
ReturnedIsFinal == \A i \in ChunkIds : tasks[i].pc = "returned" => ~Stepped(i)

\* C5: a call of _save_chunk_with_retries issues at most MAX_RETRIES requests,
\* whatever the responses; when the MAX_RETRIES-th request fails with a
\* retryable error too, the call does not go back to requesting: its next step
\* emits tts_error and returns False.
C5_BoundedRetries ==
    /\ [](/\ \A i \in ChunkIds : tasks[i].requests <= MAX_RETRIES
          /\ last_event.requests <= MAX_RETRIES)
    /\ [][/\ ReturnedIsFinal
          /\ \A i \in ChunkIds :
               /\ (/\ Handled(i)
                   /\ last_event'.requests = MAX_RETRIES
                   /\ last_event'.outcome \in RetryableOutcomes)
                     => \/ tasks'[i] = Returned("false")
                        \/ tasks'[i].pc = "sleeping"
               /\ (tasks[i].pc = "sleeping" /\ tasks[i].requests = MAX_RETRIES /\ Stepped(i))
                     => /\ tasks'[i] = Returned("false")
                        /\ n_error' = n_error + 1]_vars

\* C5 witness: the third request for a chunk was answered by a rate limit, and
\* run is still waiting for the call.
C5_Witness ==
    /\ last_event.outcome = "rate_limit"
    /\ last_event.requests = MAX_RETRIES
    /\ tasks[last_event.task].pc = "sleeping"
    /\ rpc \in {"seq_call", "as_completed"}

\* The waits _compute_backoff can return for the error of an event.
ComputedWaits(ev) ==
    {ComputeBackoff(ra, ev.attempt, Ms(RETRY_DELAY), d).delay :
        ra \in RetryAfterOf(ev.outcome), d \in 0..JitterSteps}

\* The safety half of C6: such an attempt emits no tts_error and does not
\* return; the call sleeps for the wait _compute_backoff returned, and its next
\* step is the next attempt for the same chunk.
RetryableIsRetried ==
    [][\A i \in ChunkIds :
         /\ (/\ Handled(i)
             /\ last_event'.outcome \in RetryableOutcomes
             /\ last_event'.requests < MAX_RETRIES)
               => /\ tasks'[i].pc = "sleeping"
                  /\ tasks'[i].result = "none"
                  /\ tasks'[i].sleeps = tasks[i].sleeps + 1
                  /\ last_event'.wait \in ComputedWaits(last_event')
                  /\ n_error' = n_error
         /\ (tasks[i].pc = "sleeping" /\ tasks[i].requests < MAX_RETRIES /\ Stepped(i))
               => /\ tasks'[i].pc = "request"
                  /\ tasks'[i].attempt = tasks[i].attempt + 1
                  /\ tasks'[i].requests = tasks[i].requests
                  /\ n_error' = n_error]_vars

\* The liveness half of C6: a call that sleeps after fewer than MAX_RETRIES
\* requests does issue its next request.
NextRequestIssued ==
    \A i \in ChunkIds : \A k \in 1..(MAX_RETRIES - 1) :
        (tasks[i].pc = "sleeping" /\ tasks[i].requests = k)
            ~> (last_event.task = i /\ last_event.requests = k + 1)

\* C6: when an attempt fails with a rate limit, a timeout, a connection error
\* or a 5xx status and fewer than MAX_RETRIES requests have been issued, the
\* call does not report the chunk as failed: it sleeps for the computed
\* backoff and then issues another request for the same chunk.
C6_RetryThenRequest == RetryableIsRetried /\ NextRequestIssued

\* C6 witness: a second request is about to be issued for a chunk, after a
\* first one that was answered by a 5xx status.
C6_Witness ==
    \E i \in ChunkIds :
        /\ tasks[i].pc = "request"
        /\ tasks[i].attempt = 1
        /\ tasks[i].requests = 1
        /\ tasks[i].sleeps = 1

\* C6 witness of the sleep itself: the call sleeps 2.5 s after a 5xx status
\* that carried retry-after: 2.5.
C6_WitnessSleeping ==
    /\ last_event.outcome = "status_5xx"
    /\ last_event.wait = 2500
    /\ tasks[last_event.task].pc = "sleeping"

\* C7: when an attempt fails with a 4xx status or with an OSError while the
\* file is written, the call emits tts_error and returns False in that same
\* attempt, without computing a wait or sleeping, and issues no further request.
C7_TerminalIsImmediate ==
    [][/\ ReturnedIsFinal
       /\ \A i \in ChunkIds :
            (Handled(i) /\ last_event'.outcome \in {"status_4xx", "os_error"})
               => /\ tasks'[i] = Returned("false")
                  /\ last_event'.sleeps = tasks[i].sleeps
                  /\ last_event'.wait = 0
                  /\ last_event'.requests = tasks[i].requests + 1
                  /\ n_error' = n_error + 1]_vars

\* C7 witness: the second request for a chunk failed while the file was
\* written, leaving a partial file, and the call has returned False.
C7_Witness ==
    /\ last_event.outcome = "os_error"
    /\ last_event.attempt = 1
    /\ tasks[last_event.task] = Returned("false")
    /\ chunk_file[last_event.task] = "partial"

\* C7 witness for the client error.
C7_Witness4xx ==
    /\ last_event.outcome = "status_4xx"
    /\ tasks[last_event.task] = Returned("false")

\* C8 (as claimed): a successful response with zero bytes makes the call
\* return False with tts_error emitted, and run does not count the chunk as
\* completed, so that no zero-byte temp file becomes the output of a job.
C8_EmptyPayloadFails ==
    /\ last_event.outcome = "ok_empty" =>
          /\ tasks[last_event.task] = Returned("false")
          /\ last_event.error
    /\ output # "empty"

-----------------------------------------------------------------------------
(* Properties of TTSProcessor.run *)

\* Some call of _save_chunk_with_retries has returned False.
SomeChunkFailed == \E i \in ChunkIds : tasks[i] = Returned("false")

\* The call for chunk i has been entered (a request issued or about to be).
Started(i) == tasks[i].pc \in {"request", "sleeping", "returned"}

\* Once a chunk has failed, concatenate_audio_files is not called.
NoAssemblyAfterFailure == SomeChunkFailed => (concat_calls = 0 /\ rpc # "concat")

\* C11 (as claimed): if a chunk fails, the assembler is never invoked, and when
\* run has returned with retain_files false, no temp file of the job is left
\* on disk.
C11_AbortLeavesNothing ==
    /\ NoAssemblyAfterFailure
    /\ (rpc = "finished" /\ ~retain_files /\ SomeChunkFailed)
          => \A i \in ChunkIds : chunk_file[i] = "absent"

\* C11 (amended): if a chunk fails, the assembler is never invoked, and when
\* run has returned with retain_files false, the only temp files of the job
\* left on disk are those whose removal raised in cleanup_files; this covers
\* the files of the chunks that succeeded before the failure and of the calls
\* that were still running when run left the as_completed loop.
C11_AbortCleansUp ==
    /\ NoAssemblyAfterFailure
    /\ (rpc = "finished" /\ ~retain_files /\ SomeChunkFailed)
          => \A i \in ChunkIds : chunk_file[i] # "absent" => i \in undeleted

\* C11 witness: a parallel job of three chunks has returned after chunk 2
\* failed; another call returned True without its future being consumed (it
\* was running or queued when the job aborted); no temp file is left.
C11_Witness ==
    /\ rpc = "finished" /\ ~retain_files
    /\ parallelism = 2 /\ total_chunks = 3
    /\ tasks[2] = Returned("false") /\ 2 \in collected
    /\ \E j \in {1, 3} : tasks[j] = Returned("true") /\ j \notin collected
    /\ \A i \in ChunkIds : chunk_file[i] = "absent"
    /\ undeleted = {}

\* C12: in sequential mode the call for a chunk is entered only after the
\* calls for all chunks before it returned True, and once a call has not
\* returned True no later chunk is requested.
C12_SequentialOrder ==
    parallelism = 1 =>
        \A i \in 1..total_chunks :
            /\ Started(i) => \A j \in 1..(i - 1) : tasks[j] = Returned("true")
            /\ (Started(i) /\ tasks[i] # Returned("true"))
                  => \A j \in (i + 1)..total_chunks : tasks[j].pc = "idle"

\* C12 witness: a sequential job of three chunks has returned after chunk 1
\* succeeded and chunk 2 failed; chunk 3 was never requested.
C12_Witness ==
    /\ parallelism = 1 /\ total_chunks = 3
    /\ rpc = "finished"
    /\ tasks[1] = Returned("true")
    /\ tasks[2] = Returned("false")
    /\ tasks[3].pc = "idle"

\* C13 (as claimed): for a job of any number of chunks from 1 to MaxSegments
\* whose chunks all succeed, every progress value emitted is within 0..100 and
\* not below the one emitted before it, and the last one is 100.
C13_ProgressMonotone ==
    /\ pg_emitted # -1 => pg_emitted \in 0..100
    /\ pg_prev # -1 => pg_prev <= pg_emitted
    /\ pg_pc = "done" => pg_emitted = 100

\* concatenate_audio_files raised.
ConcatRaised == concat_exc \notin {"none", "returned"}

\* C14: progress 100 and tts_complete are emitted only after
\* concatenate_audio_files has returned: every value emitted before is at most
\* 95, 100 is the last value of a job, and a job whose concatenation raised
\* (tool missing, non-zero exit, or any other error) emits neither.
C14_CompletionAfterAssembly ==
    /\ \A k \in 1..Len(progress) :
          IF progress[k] = 100
          THEN k = Len(progress) /\ concat_exc = "returned"
          ELSE progress[k] <= 95
    /\ n_complete > 0 => (concat_exc = "returned" /\ n_complete = 1)
    /\ ConcatRaised => (n_complete = 0 /\ \A k \in 1..Len(progress) : progress[k] # 100)

\* C14 witness: the tool exited non-zero for a job of three chunks; the last
\* progress value is 95, tts_error was emitted, tts_complete was not.
C14_Witness ==
    /\ rpc = "finished"
    /\ total_chunks = 3
    /\ concat_exc = "CalledProcessError"
    /\ progress[Len(progress)] = 95
    /\ n_complete = 0
    /\ n_error = 1

\* C14 witness of the success: 100 follows 95 once the tool has succeeded.
C14_WitnessSuccess ==
    /\ rpc = "finished"
    /\ concat_exc = "returned"
    /\ tool_runs # <<>>
    /\ Len(progress) >= 2
    /\ progress[Len(progress)] = 100
    /\ progress[Len(progress) - 1] = 95
    /\ n_complete = 1

\* A job of several chunks has ended with tts_complete.
MultiChunkSuccess == rpc = "finished" /\ n_complete = 1 /\ total_chunks >= 2

\* C18 (as claimed): after a successful job of several chunks every temp file
\* is gone if retain_files is false and every one is still there if it is
\* true; the output file is there in both cases.
C18_CleanupFollowsRetention ==
    MultiChunkSuccess =>
        /\ ~retain_files => \A i \in 1..total_chunks : chunk_file[i] = "absent"
        /\ retain_files => \A i \in 1..total_chunks : chunk_file[i] # "absent"
        /\ output = "joined"

\* C18 (amended): after a successful job of several chunks, if retain_files is
\* false the only temp files left are those whose removal raised in
\* cleanup_files, and if it is true every temp file is still there; the output
\* file is there in both cases.
C18_CleanupUnlessStuck ==
    MultiChunkSuccess =>
        /\ ~retain_files
              => \A i \in 1..total_chunks : chunk_file[i] # "absent" => i \in undeleted
        /\ retain_files
              => (undeleted = {} /\ \A i \in 1..total_chunks : chunk_file[i] # "absent")
        /\ output = "joined"

\* C18 witness: a job of three chunks succeeded without retention, and its
\* three temp files are gone.
C18_Witness ==
    /\ MultiChunkSuccess /\ total_chunks = 3
    /\ ~retain_files
    /\ \A i \in 1..total_chunks : chunk_file[i] = "absent"
    /\ output = "joined"

\* C18 witness with retention: the three temp files are kept.
C18_WitnessRetained ==
    /\ MultiChunkSuccess /\ total_chunks = 3
    /\ retain_files
    /\ \A i \in 1..total_chunks : chunk_file[i] = "audio"
    /\ output = "joined"

\* C20 (as claimed): as long as the job has not succeeded, no step of it
\* creates, removes or modifies the file at the output path.
C20_FailureLeavesOutput ==
    [][n_complete' = 0 => output' = output]_vars

\* C21 (as claimed): in the parallel branch, once run has seen a failed chunk
\* and left the as_completed loop, no call that is still queued is started.
C21_NoStartAfterFailure ==
    [][rpc = "shutdown"
         => \A i \in ChunkIds : tasks[i].pc = "queued" => tasks'[i].pc = "queued"]_vars

\* C22: the list handed to concatenate_audio_files holds one temp file per
\* chunk, no file twice, in the order of the chunks, in both branches and
\* whatever order the calls returned in; the tool runs on the same order.
C22_ArtifactListInOrder ==
    (rpc = "concat" \/ concat_calls > 0) =>
        /\ Len(temp_files) = total_chunks
        /\ \A k \in 1..Len(temp_files) : temp_files[k] = k
        /\ \A k, l \in 1..Len(temp_files) : k # l => temp_files[k] # temp_files[l]
        /\ \A r \in 1..Len(tool_runs) : tool_runs[r] = temp_files

\* C22 witness: the tool has run on the three files of a parallel job.
C22_Witness ==
    /\ parallelism = 2 /\ total_chunks = 3
    /\ concat_calls = 1
    /\ tool_runs = <<(<<1, 2, 3>>)>>

\* C22 witness of the order of completion: in a parallel job the call for
\* chunk 2 has returned and been collected while chunk 1 is still requested.
C22_WitnessOutOfOrder ==
    /\ rpc = "as_completed"
    /\ collected = {2}
    /\ tasks[1].pc \in {"request", "sleeping"}

\* C24 (as claimed): a job emits at most one of tts_complete and tts_error,
\* and exactly one by the time run has returned.
C24_OneTerminalNotification ==
    /\ n_error + n_complete <= 1
    /\ rpc = "finished" => n_error + n_complete = 1

\* C25: for the empty text, the first step of run emits tts_error and goes to
\* the finally clause: no call of _save_chunk_with_retries is entered, no
\* temp file is listed or created, concatenate_audio_files is not called, and
\* neither a progress value nor tts_complete is emitted.
C25_EmptyTextNeverStarts ==
    job_text = <<>> =>
        /\ rpc \in {"start", "finally", "finished"}
        /\ rpc # "start" => n_error = 1
        /\ \A i \in ChunkIds : tasks[i].pc = "none" /\ chunk_file[i] = "absent"
        /\ temp_files = <<>>
        /\ concat_calls = 0
        /\ progress = <<>>
        /\ n_complete = 0
        /\ last_event = NoEvent

\* C25 witness: run has returned for the empty text, with one tts_error.
C25_Witness ==
    /\ job_text = <<>>
    /\ rpc = "finished"
    /\ n_error = 1
    /\ concat_calls = 0

\* C26 (as claimed): a call sleeps at most MAX_RETRIES - 1 times, and a call
\* that has issued its MAX_RETRIES-th request is not sleeping.
C26_NoSleepAfterLastAttempt ==
    \A i \in ChunkIds :
        /\ tasks[i].sleeps <= MAX_RETRIES - 1
        /\ tasks[i].pc = "sleeping" => tasks[i].requests < MAX_RETRIES

\* The text is empty once stripped of whitespace.
BlankText(t) == \A k \in 1..Len(t) : IsSpace(t[k])

\* C27 (as claimed): for a text that is empty after stripping, run emits
\* tts_error and never tts_complete.
C27_BlankTextIsAnError ==
    BlankText(job_text) =>
        /\ n_complete = 0
        /\ rpc = "finished" => n_error >= 1

\* C29 (as claimed): once tts_complete has been emitted for a job without
\* retention, its temp files are gone and its cleanup does not run any more.
C29_CleanupBeforeSuccess ==
    (n_complete = 1 /\ ~retain_files) =>
        /\ rpc = "finished"
        /\ \A i \in ChunkIds : chunk_file[i] # "absent" => i \in undeleted

\* The job ended with tts_complete.
JobCompleted == rpc = "finished" /\ n_complete = 1 /\ n_error = 0

\* The job ended with tts_error and without tts_complete.
JobAborted == rpc = "finished" /\ n_complete = 0 /\ n_error >= 1

\* C28: when every request, sleep and tool run returns, run returns; it then
\* is in exactly one of the states completed and aborted, no call has issued
\* more than MAX_RETRIES requests, the finally clause has removed the temp
\* files (all but those whose removal was refused) unless they are retained,
\* and no step is taken from the state in which run has returned.
C28_TerminatesOnce ==
    /\ <>(rpc = "finished")
    /\ [](rpc = "finished" =>
            /\ JobCompleted \/ JobAborted
            /\ ~(JobCompleted /\ JobAborted)
            /\ \A i \in ChunkIds : tasks[i].pc \notin {"queued", "request", "sleeping"}
            /\ ~retain_files =>
                  \A k \in 1..Len(temp_files) :
                      chunk_file[temp_files[k]] # "absent" => temp_files[k] \in undeleted)
    /\ [](/\ \A i \in ChunkIds : tasks[i].requests <= MAX_RETRIES
          /\ last_event.requests <= MAX_RETRIES)
    /\ [][rpc # "finished"]_vars

\* C28 witness: a parallel job of two chunks has returned completed, its
\* temp files removed.
C28_Witness ==
    /\ JobCompleted
    /\ parallelism = 2 /\ total_chunks = 2
    /\ ~retain_files
    /\ \A i \in ChunkIds : chunk_file[i] = "absent"

\* C28 witness: a job has returned aborted after a call used up its requests.
C28_WitnessAborted ==
    /\ JobAborted
    /\ \E i \in ChunkIds : tasks[i] = Returned("false")

-----------------------------------------------------------------------------
(* Properties of concatenate_audio_files *)

\* C15: called on a list of exactly one existing file, concatenate_audio_files
\* never runs the tool or writes a manifest, and when it returns, the source no
\* longer exists and the output path holds what the source held, whatever was
\* at the output path before.
C15_SingleFileRename ==
    [][(/\ rpc = "concat_call"
        /\ Len(temp_files) = 1
        /\ chunk_file[temp_files[1]] # "absent")
          => /\ tool_runs' = <<>>
             /\ manifest' = "absent"
             /\ concat_exc' = "returned"
                  => /\ chunk_file'[temp_files[1]] = "absent"
                     /\ output' = chunk_file[temp_files[1]]]_vars

\* C15 witness: the only listed file has been renamed onto an output path
\* that held an older file.
C15_Witness ==
    /\ rpc = "concat_done"
    /\ Len(temp_files) = 1
    /\ concat_exc = "returned"
    /\ chunk_file[1] = "absent"
    /\ output = "audio"
    /\ tool_runs = <<>>

\* C16 (as claimed): after a call on several files the manifest no longer
\* exists, whether the call returned or raised.
C16_ManifestAlwaysRemoved ==
    (rpc = "concat_done" /\ Len(temp_files) >= 2) => manifest = "absent"

\* C16 (amended): after a call on several files, whether the tool succeeded,
\* exited non-zero or was not found, the manifest no longer exists unless its
\* removal raised, which the finally clause only logs.
C16_ManifestRemovedUnlessStuck ==
    (rpc = "concat_done" /\ Len(temp_files) >= 2)
        => (manifest = "present" => manifest_stuck)

\* C16 witness: the tool exited non-zero and the manifest is gone.
C16_Witness ==
    /\ rpc = "concat_done"
    /\ Len(temp_files) >= 2
    /\ concat_exc = "CalledProcessError"
    /\ tool_runs # <<>>
    /\ manifest = "absent"

\* C16 witness for the tool that is not found.
C16_WitnessToolMissing ==
    /\ rpc = "concat_done"
    /\ Len(temp_files) >= 2
    /\ concat_exc = "FileNotFoundError"
    /\ manifest = "absent"

\* C17 (as claimed): when a listed file does not exist the call raises and
\* the tool is not run; the tool never runs on a manifest that leaves out a
\* listed file.
C17_MissingInputIsFatal ==
    /\ \A k \in 1..Len(tool_runs) : tool_runs[k] = temp_files
    /\ (/\ rpc = "concat_done"
        /\ Len(temp_files) >= 2
        /\ \E i \in Range(temp_files) : chunk_file[i] = "absent")
          => (ConcatRaised /\ tool_runs = <<>>)

-----------------------------------------------------------------------------
(* Properties of rate_limited_request *)

\* C19 (as claimed): whatever the interleaving of the workers, two requests
\* never go out less than the tier's minimum interval apart.
C19_RequestsSpaced ==
    rl_min_gap # -1 => rl_min_gap >= MinInterval(rl_model)

-----------------------------------------------------------------------------
(* Properties of process_speech *)

\* C23 (as claimed): the file_list of every call of concatenate_audio_files
\* by process_speech names the chunk files in the order of their indices.
C23_ConcatInIndexOrder ==
    \A c \in 1..Len(ps_concat_args) :
        \A k, l \in 1..Len(ps_concat_args[c]) :
            k < l => ps_concat_args[c][k] < ps_concat_args[c][l]

====
